---- MODULE Spec2Model ----
(***************************************************************************)
(* Model of the BUA backend gateway: signup / login / users-me / translate *)
(* handlers, the JWT issuer and verifier, the identity resolver, and the   *)
(* user and session collections of the document store.                     *)
(***************************************************************************)
EXTENDS Integers, Sequences, FiniteSets, TLC

VARIABLES
    users,      \* db["users"]: set of stored user documents
    sessions,   \* db["sessions"]: set of stored translation session documents
    files,      \* paths that exist under temp_audio_files/
    clock,      \* wall clock, in ticks of 1/SubSec second
    nextOid,    \* generator state of bson.ObjectId()
    req,        \* per request slot: position, input and locals of the request in flight
    last,       \* the request answered last, with its response
    issued,     \* history: every access token the server has returned
    signedUp,   \* history: <<email, password>> of every signup answered 201
    aclient,    \* whisper_client.aclient is not None
    gpt_aclient,\* gpt_client.gpt_aclient is not None
    tk          \* token round-trip experiment (issue, then verify)

vars == <<users, sessions, files, clock, nextOid, req, last, issued, signedUp,
          aclient, gpt_aclient, tk>>

----------------------------------------------------------------------------
(* Bounds of the model *)

\* clock ticks per second (sub-second resolution of datetime.now)
SubSec == 2
\* number of concurrent request slots
NReq == 2
\* number of concurrent request slots used by translate requests
NReqTr == 1
\* ObjectId() may be called this many times
MaxOid == 2
\* the main clock advances this many seconds per Tick
TickSeconds == 1800
\* the main clock stops advancing after this many Tick steps
MaxTicks == 2
\* largest small elapsed time (ticks) tried in the token experiment
MaxElapsed == 6
\* distinct access tokens the server may issue in one run
MaxIssued == 2
\* session documents one run may store
MaxSessions == 1

(* Program constants *)

ACCESS_TOKEN_EXPIRE_MINUTES == 30
ALGORITHM == "HS256"
JWT_SECRET_KEY == "settings.JWT_SECRET_KEY"

HTTP_200_OK == 200
HTTP_201_CREATED == 201
HTTP_400_BAD_REQUEST == 400
HTTP_401_UNAUTHORIZED == 401
HTTP_413_REQUEST_ENTITY_TOO_LARGE == 413
HTTP_500_INTERNAL_SERVER_ERROR == 500

----------------------------------------------------------------------------
(* Value domains *)

Emails == {"a@x.com", "b@x.com"}
Passwords == {"longenough1", "longenough2"}
Names == {"Ann"}
Salts == {"salt1"}

\* Optional[T] is <<>> (None) or <<v>>
None == <<>>
Some(v) == <<v>>

\* A 24-hex-digit string denotes the ObjectId `hex`; hex digits may be written
\* in either case.  Any other string is not a valid ObjectId.
IdStr(h, up) == [valid |-> TRUE, hex |-> h, upper |-> up]
BadIdStr == [valid |-> FALSE, hex |-> 0, upper |-> FALSE]

\* bson.ObjectId.is_valid(s)
ObjectId_is_valid(s) == s.valid
\* bson.ObjectId(s): the 12-byte value, case of the hex digits is lost
ObjectId(s) == s.hex
\* str(ObjectId): lower-case hex
ObjectId_str(oid) == IdStr(oid, FALSE)

----------------------------------------------------------------------------
(* Credential hasher: passlib CryptContext(schemes=["bcrypt"]) *)

\* pwd_context.hash with the salt the scheme drew
bcrypt_hash(password, salt) ==
    [scheme |-> "bcrypt", salt |-> salt, digest |-> <<salt, password>>]

get_password_hash(password, salt) == bcrypt_hash(password, salt)

verify_password(plain_password, hashed_password) ==
    bcrypt_hash(plain_password, hashed_password.salt).digest = hashed_password.digest

----------------------------------------------------------------------------
(* Token issuer / verifier: jose.jwt with HS256 *)

\* HMAC over header and payload under `key`, idealised as collision free
Sign(key, alg, payload) == [key |-> key, alg |-> alg, payload |-> payload]

\* timegm(dt.utctimetuple()): whole seconds, the fraction is dropped
timegm(t) == t \div SubSec

\* bool(timedelta): None and timedelta(0) are falsy
Truthy(expires_delta) == expires_delta # None /\ expires_delta[1] # 0

create_access_token(data, expires_delta, now) ==
    LET expire == IF Truthy(expires_delta)
                  THEN now + expires_delta[1]
                  ELSE now + ACCESS_TOKEN_EXPIRE_MINUTES * 60 * SubSec
        to_encode == [email |-> data.email, user_id |-> data.user_id,
                      exp |-> timegm(expire)]
    IN  [alg |-> ALGORITHM, payload |-> to_encode,
         sig |-> Sign(JWT_SECRET_KEY, ALGORITHM, to_encode)]

\* payload.get(k)
Get(payload, k) == IF k \in DOMAIN payload THEN Some(payload[k]) ELSE None

DecodeOk(payload) == [ok |-> TRUE, err |-> "", payload |-> payload]
DecodeErr(e) == [ok |-> FALSE, err |-> e, payload |-> [x |-> 0]]

\* variant: the expiry test is inclusive (exp <= now)
jwt_decode_expiry_inclusive(token, key, algorithms, now) ==
    IF token.alg \notin algorithms
    THEN DecodeErr("JWTError")
    ELSE IF token.sig # Sign(key, token.alg, token.payload)
    THEN DecodeErr("JWTError")
    ELSE IF "exp" \in DOMAIN token.payload /\ token.payload.exp <= timegm(now)
    THEN DecodeErr("ExpiredSignatureError")
    ELSE DecodeOk(token.payload)

\* variant: the claims are read without verifying the signature
jwt_decode_no_signature_check(token, key, algorithms, now) ==
    IF "exp" \in DOMAIN token.payload /\ token.payload.exp < timegm(now)
    THEN DecodeErr("ExpiredSignatureError")
    ELSE DecodeOk(token.payload)

\* variant: the exp claim is read before the signature is verified
jwt_decode_expiry_first(token, key, algorithms, now) ==
    IF "exp" \in DOMAIN token.payload /\ token.payload.exp < timegm(now)
    THEN DecodeErr("ExpiredSignatureError")
    ELSE IF token.alg \notin algorithms
    THEN DecodeErr("JWTError")
    ELSE IF token.sig # Sign(key, token.alg, token.payload)
    THEN DecodeErr("JWTError")
    ELSE DecodeOk(token.payload)

\* jwt.decode: the signature is verified first, then the exp claim
jwt_decode(token, key, algorithms, now) ==
    IF token.alg \notin algorithms
    THEN DecodeErr("JWTError")
    ELSE IF token.sig # Sign(key, token.alg, token.payload)
    THEN DecodeErr("JWTError")
    ELSE IF "exp" \in DOMAIN token.payload /\ token.payload.exp < timegm(now)
    THEN DecodeErr("ExpiredSignatureError")
    ELSE DecodeOk(token.payload)

\* get_current_user, the try block: decode, then the claim checks
VerifyOk(email, user_id) == [ok |-> TRUE, err |-> "", email |-> email, user_id |-> user_id]
VerifyErr(e) == [ok |-> FALSE, err |-> e, email |-> "", user_id |-> BadIdStr]

verify_token(token, now) ==
    LET d == jwt_decode(token, JWT_SECRET_KEY, {ALGORITHM}, now)
    IN  IF ~d.ok THEN VerifyErr(d.err)
        ELSE LET email == Get(d.payload, "email")
                 user_id_from_token == Get(d.payload, "user_id")
             IN  IF email = None \/ user_id_from_token = None
                 THEN VerifyErr("MissingClaim")
                 ELSE IF ~ObjectId_is_valid(user_id_from_token[1])
                 THEN VerifyErr("InvalidObjectId")
                 ELSE VerifyOk(email[1], user_id_from_token[1])

----------------------------------------------------------------------------
(* Token round trip: create_access_token followed by the verifier at a    *)
(* later instant.  The inputs are drawn in InitTok.                        *)

DefaultTtl == ACCESS_TOKEN_EXPIRE_MINUTES * 60 * SubSec

\* identity claims as the routes build them: email and str(ObjectId)
IdentityClaims == [email : Emails, user_id : {IdStr(1, FALSE), IdStr(2, FALSE)}]

\* expires_delta values, in ticks
Ttls == {None, Some(0), Some(0 - SubSec), Some(1), Some(SubSec), Some(2 * SubSec)}

StartTimes == SubSec .. (2 * SubSec + 1)

Elapsed == (0 .. MaxElapsed) \cup {DefaultTtl + k : k \in (0 - 1) .. (SubSec + 1)}

NoToken == [alg |-> "", payload |-> [x |-> 0], sig |-> [x |-> 0]]

TkOff == [pc |-> "off", c |-> [email |-> "", user_id |-> BadIdStr], ttl |-> None,
          t0 |-> 0, token |-> NoToken, now |-> 0, res |-> VerifyErr("")]

TokIssue ==
    /\ tk.pc = "start"
    /\ tk' = [tk EXCEPT !.pc = "issued",
                        !.token = create_access_token(tk.c, tk.ttl, tk.t0)]
    /\ UNCHANGED <<users, sessions, files, clock, nextOid, req, last, issued, signedUp,
                   aclient, gpt_aclient>>

TokVerify ==
    /\ tk.pc = "issued"
    /\ \E el \in Elapsed :
          tk' = [tk EXCEPT !.pc = "verified", !.now = tk.t0 + el,
                           !.res = verify_token(tk.token, tk.t0 + el)]
    /\ UNCHANGED <<users, sessions, files, clock, nextOid, req, last, issued, signedUp,
                   aclient, gpt_aclient>>

----------------------------------------------------------------------------
(* HTTP responses *)

Resp(status, detail, headers, body) ==
    [status |-> status, detail |-> detail, headers |-> headers, body |-> body]

NoResp == Resp(0, <<>>, {}, None)

\* raise HTTPException(status_code, detail, headers)
HTTPException(status, detail, headers) == Resp(status, detail, headers, None)

BearerHeader == {<<"WWW-Authenticate", "Bearer">>}

\* Token(access_token=..., token_type="bearer")
Token(access_token) == [access_token |-> access_token, token_type |-> "bearer"]

\* app.py: any exception that is not an HTTPException ends here
general_exception_handler(exc) ==
    Resp(HTTP_500_INTERNAL_SERVER_ERROR,
         <<"An internal server error occurred. Please try again later.">>, {}, None)

----------------------------------------------------------------------------
(* The users collection, with the unique index on email made at startup *)

\* db["users"].find_one({"email": email})
find_one_by_email(coll, email) ==
    IF \E u \in coll : u.email = email
    THEN Some(CHOOSE u \in coll : u.email = email)
    ELSE None

\* variant: the lookup is by _id alone
find_one_by_id_only(coll, oid, email) ==
    IF \E u \in coll : u._id = oid
    THEN Some(CHOOSE u \in coll : u._id = oid)
    ELSE None

\* db["users"].find_one({"_id": oid, "email": email})
find_one_by_id_and_email(coll, oid, email) ==
    IF \E u \in coll : u._id = oid /\ u.email = email
    THEN Some(CHOOSE u \in coll : u._id = oid /\ u.email = email)
    ELSE None

\* variant: the collection has no unique index on email
users_insert_one_no_email_index(coll, doc) ==
    IF \E u \in coll : u._id = doc._id
    THEN [ok |-> FALSE, err |-> "DuplicateKeyError", coll |-> coll]
    ELSE [ok |-> TRUE, err |-> "", coll |-> coll \cup {doc}]

\* db["users"].insert_one(doc): the unique indexes on _id and email decide
users_insert_one(coll, doc) ==
    IF \E u \in coll : u._id = doc._id \/ u.email = doc.email
    THEN [ok |-> FALSE, err |-> "DuplicateKeyError", coll |-> coll]
    ELSE [ok |-> TRUE, err |-> "", coll |-> coll \cup {doc}]

----------------------------------------------------------------------------
(* Request slots *)

Reqs == 1 .. NReq

NoIn == [x |-> 0]

Idle == [pc |-> "idle", kind |-> "", in |-> NoIn, loc |-> NoIn,
         reads |-> 0, writes |-> 0, resp |-> NoResp]

\* a new request takes the lowest slot that has no request in flight
Free(i) == req[i].pc = "idle"
CanStart(i) == Free(i) /\ \A j \in 1 .. (i - 1) : ~Free(j)

\* slot i moves on to r; an answered request leaves its slot
Step(i, r) ==
    IF r.pc = "done"
    THEN req' = [req EXCEPT ![i] = Idle] /\ last' = r
    ELSE req' = [req EXCEPT ![i] = r] /\ UNCHANGED last

\* signups that have passed the existence check and not yet inserted
PendingSignups == Cardinality({j \in Reqs : req[j].pc = "signup_insert"})

\* the handler of slot i has answered
Answer(r, resp) == [r EXCEPT !.pc = "done", !.resp = resp]

\* slot i starts on a request of this kind
Start(kind, input) == [Idle EXCEPT !.kind = kind, !.in = input]

TokenTtl == Some(ACCESS_TOKEN_EXPIRE_MINUTES * 60 * SubSec)

----------------------------------------------------------------------------
(* POST /auth/signup *)

\* variant: the existence check is left to the store
signup_check_no_lookup(coll, user_create, salt, oid) ==
    [ok |-> TRUE, resp |-> NoResp,
     doc |-> [_id |-> oid, email |-> user_create.email, name |-> user_create.name,
              hashed_password |-> get_password_hash(user_create.password, salt)]]

\* signup up to the await of insert_one: the existence check, the hash, the id
signup_check(coll, user_create, salt, oid) ==
    IF find_one_by_email(coll, user_create.email) # None
    THEN [ok |-> FALSE,
          resp |-> HTTPException(HTTP_400_BAD_REQUEST, <<"Email already registered.">>, {}),
          doc |-> NoIn]
    ELSE [ok |-> TRUE, resp |-> NoResp,
          doc |-> [_id |-> oid, email |-> user_create.email, name |-> user_create.name,
                   hashed_password |-> get_password_hash(user_create.password, salt)]]

\* signup from insert_one on: a failed insert is not caught by the route
signup_finish(ins, doc, now) ==
    IF ~ins.ok
    THEN general_exception_handler(ins.err)
    ELSE Resp(HTTP_201_CREATED, <<>>, {},
              Some(Token(create_access_token(
                  [email |-> doc.email, user_id |-> ObjectId_str(doc._id)],
                  TokenTtl, now))))

SignupFind(i) ==
    /\ CanStart(i)
    /\ \E e \in Emails, p \in Passwords, n \in Names, salt \in Salts :
         LET uc == [email |-> e, password |-> p, name |-> n]
             chk == signup_check(users, uc, salt, nextOid + 1)
         IN  IF ~chk.ok
             THEN /\ Step(i, [Answer(Start("signup", uc), chk.resp) EXCEPT !.reads = 1])
                  /\ UNCHANGED nextOid
             ELSE /\ nextOid < MaxOid
                  /\ Cardinality(issued) + PendingSignups < MaxIssued
                  /\ Step(i, [Start("signup", uc) EXCEPT
                                 !.pc = "signup_insert", !.loc = chk.doc, !.reads = 1])
                  /\ nextOid' = nextOid + 1
    /\ UNCHANGED <<users, sessions, files, clock, issued, signedUp,
                   aclient, gpt_aclient, tk>>

SignupInsert(i) ==
    /\ req[i].pc = "signup_insert"
    /\ LET doc == req[i].loc
           ins == users_insert_one(users, doc)
           resp == signup_finish(ins, doc, clock)
       IN  /\ users' = ins.coll
           /\ Step(i, [Answer(req[i], resp) EXCEPT !.writes = IF ins.ok THEN 1 ELSE 0])
           /\ issued' = IF ins.ok THEN issued \cup {resp.body[1].access_token} ELSE issued
           /\ signedUp' = IF ins.ok
                          THEN signedUp \cup {<<req[i].in.email, req[i].in.password>>}
                          ELSE signedUp
    /\ UNCHANGED <<sessions, files, clock, nextOid, aclient, gpt_aclient, tk>>

----------------------------------------------------------------------------
(* POST /auth/login *)

\* variant: an unknown email gets its own message
login_distinct_errors(coll, form_data, now) ==
    LET user_dict == find_one_by_email(coll, form_data.email)
    IN  IF user_dict = None
        THEN HTTPException(HTTP_401_UNAUTHORIZED, <<"Email not registered.">>, BearerHeader)
        ELSE IF ~verify_password(form_data.password, user_dict[1].hashed_password)
        THEN HTTPException(HTTP_401_UNAUTHORIZED, <<"Incorrect email or password.">>,
                           BearerHeader)
        ELSE Resp(HTTP_200_OK, <<>>, {},
                  Some(Token(create_access_token(
                      [email |-> user_dict[1].email,
                       user_id |-> ObjectId_str(user_dict[1]._id)],
                      TokenTtl, now))))

login(coll, form_data, now) ==
    LET user_dict == find_one_by_email(coll, form_data.email)
    IN  IF user_dict = None
           \/ ~verify_password(form_data.password, user_dict[1].hashed_password)
        THEN HTTPException(HTTP_401_UNAUTHORIZED, <<"Incorrect email or password.">>,
                           BearerHeader)
        ELSE Resp(HTTP_200_OK, <<>>, {},
                  Some(Token(create_access_token(
                      [email |-> user_dict[1].email,
                       user_id |-> ObjectId_str(user_dict[1]._id)],
                      TokenTtl, now))))

\* variant: a successful login stores a fresh hash of the password
Login_rehash(i) ==
    /\ CanStart(i)
    /\ \E e \in Emails, p \in Passwords :
         LET fd == [email |-> e, password |-> p]
             resp == login(users, fd, clock)
         IN  /\ Step(i, [Answer(Start("login", fd), resp) EXCEPT !.reads = 1])
             /\ issued' = IF resp.status = HTTP_200_OK
                          THEN issued \cup {resp.body[1].access_token}
                          ELSE issued
             /\ Cardinality(issued') + PendingSignups <= MaxIssued
             /\ users' = IF resp.status = HTTP_200_OK
                         THEN {IF u.email = e
                               THEN [u EXCEPT !.hashed_password = get_password_hash(p, "salt2")]
                               ELSE u : u \in users}
                         ELSE users
    /\ UNCHANGED <<sessions, files, clock, nextOid, signedUp, aclient, gpt_aclient, tk>>

Login(i) ==
    /\ CanStart(i)
    /\ \E e \in Emails, p \in Passwords :
         LET fd == [email |-> e, password |-> p]
             resp == login(users, fd, clock)
         IN  /\ Step(i, [Answer(Start("login", fd), resp) EXCEPT !.reads = 1])
             /\ issued' = IF resp.status = HTTP_200_OK
                          THEN issued \cup {resp.body[1].access_token}
                          ELSE issued
             /\ Cardinality(issued') + PendingSignups <= MaxIssued
    /\ UNCHANGED <<users, sessions, files, clock, nextOid, signedUp,
                   aclient, gpt_aclient, tk>>

----------------------------------------------------------------------------
(* Identity resolver: get_current_user and get_current_active_user *)

credentials_exception ==
    HTTPException(HTTP_401_UNAUTHORIZED, <<"Could not validate credentials">>, BearerHeader)

\* EmailStr accepts the string
EmailValid(e) == e \in Emails

\* UserInDB(**current_user_dict) validates
UserInDB_ok(d) ==
    /\ {"_id", "email", "name", "hashed_password"} \subseteq DOMAIN d
    /\ EmailValid(d.email)

\* get_current_active_user: _id becomes a string, then the UserInDB validation
get_current_active_user(current_user_dict) ==
    IF ~UserInDB_ok(current_user_dict)
    THEN [ok |-> FALSE,
          resp |-> HTTPException(HTTP_401_UNAUTHORIZED,
                       <<"User data from token is invalid or malformed.">>, BearerHeader),
          user |-> NoIn]
    ELSE [ok |-> TRUE, resp |-> NoResp,
          user |-> [id |-> ObjectId_str(current_user_dict._id),
                    email |-> current_user_dict.email,
                    name |-> current_user_dict.name,
                    hashed_password |-> current_user_dict.hashed_password]]

\* get_current_user after the try block, then get_current_active_user
resolve_user(coll, claim) ==
    LET user == find_one_by_id_and_email(coll, ObjectId(claim.user_id), claim.email)
    IN  IF user = None
        THEN [ok |-> FALSE, resp |-> credentials_exception, user |-> NoIn]
        ELSE get_current_active_user(user[1])

\* variant: the whole UserInDB is returned
read_users_me_whole_record(current_user) ==
    Resp(HTTP_200_OK, <<>>, {}, Some(current_user))

\* UserResponse(id, email, name)
read_users_me(current_user) ==
    Resp(HTTP_200_OK, <<>>, {},
         Some([id |-> current_user.id, email |-> current_user.email,
               name |-> current_user.name]))

\* variant: the store is asked before the outcome of the verification is used
BeginAuth_lookup_first(kind, input, now) ==
    LET v == verify_token(input.token, now)
    IN  [Start(kind, input) EXCEPT !.pc = "find",
                   !.loc = [email |-> v.email, user_id |-> v.user_id]]

\* variant: only the newest token issued for an email is honoured
BeginAuth_newest_only(kind, input, now) ==
    LET v == verify_token(input.token, now)
        superseded == \E t \in issued :
                         /\ t.payload.email = v.email
                         /\ t.payload.exp > input.token.payload.exp
    IN  IF ~v.ok \/ superseded
        THEN Answer(Start(kind, input), credentials_exception)
        ELSE [Start(kind, input) EXCEPT !.pc = "find",
                       !.loc = [email |-> v.email, user_id |-> v.user_id]]

\* A protected request arrives: the try block of get_current_user runs on the
\* presented token; on success the handler waits for find_one.
BeginAuth(kind, input, now) ==
    LET v == verify_token(input.token, now)
    IN  IF ~v.ok
        THEN Answer(Start(kind, input), credentials_exception)
        ELSE [Start(kind, input) EXCEPT !.pc = "find",
                       !.loc = [email |-> v.email, user_id |-> v.user_id]]

----------------------------------------------------------------------------
(* Tokens a client may present *)

AttackerKey == "attacker"

FarFuture == MaxTicks * TickSeconds + ACCESS_TOKEN_EXPIRE_MINUTES * 60 + 1

ForgePayloads ==
    [email : {"a@x.com"}, user_id : {IdStr(1, FALSE)}, exp : {FarFuture}]

\* tokens made without the secret
ForgedTokens ==
    {[alg |-> a, payload |-> pl, sig |-> Sign(AttackerKey, a, pl)] :
        a \in {ALGORITHM, "none"}, pl \in ForgePayloads}

\* an issued token with its claims, signature or header altered
Tampered(t) ==
    {[t EXCEPT !.payload.email = e] : e \in Emails \ {t.payload.email}}
    \cup {[t EXCEPT !.payload.user_id = IdStr(h, FALSE)] :
             h \in (1 .. MaxOid) \ {t.payload.user_id.hex}}
    \cup {[t EXCEPT !.payload.exp = FarFuture],
          [t EXCEPT !.sig = Sign(AttackerKey, t.alg, t.payload)]}

PresentableTokens ==
    issued \cup UNION {Tampered(t) : t \in issued} \cup ForgedTokens

----------------------------------------------------------------------------
(* GET /auth/users/me *)

MeRequest(i) ==
    /\ CanStart(i)
    /\ \E tok \in PresentableTokens :
         Step(i, BeginAuth("me", [token |-> tok], clock))
    /\ UNCHANGED <<users, sessions, files, clock, nextOid, issued, signedUp,
                   aclient, gpt_aclient, tk>>

MeFind(i) ==
    /\ req[i].pc = "find"
    /\ req[i].kind = "me"
    /\ LET res == resolve_user(users, req[i].loc)
           resp == IF res.ok THEN read_users_me(res.user) ELSE res.resp
       IN  Step(i, [Answer(req[i], resp) EXCEPT !.reads = @ + 1])
    /\ UNCHANGED <<users, sessions, files, clock, nextOid, issued, signedUp,
                   aclient, gpt_aclient, tk>>

----------------------------------------------------------------------------
(* Text, as a sequence of words; " " is white space *)

RECURSIVE LStrip(_)
LStrip(s) == IF s # <<>> /\ Head(s) = " " THEN LStrip(Tail(s)) ELSE s

RECURSIVE RStrip(_)
RStrip(s) == IF s # <<>> /\ s[Len(s)] = " " THEN RStrip(SubSeq(s, 1, Len(s) - 1)) ELSE s

\* str.strip()
Strip(s) == RStrip(LStrip(s))

\* str.startswith(prefix)
StartsWith(s, prefix) ==
    Len(prefix) <= Len(s) /\ SubSeq(s, 1, Len(prefix)) = prefix

----------------------------------------------------------------------------
(* Transcription collaborator: utils/whisper_client.transcribe_audio *)

Transcripts == {<<"hello">>, <<" ">>}

\* what aclient.audio.transcriptions.create does: returns text or raises
WhisperOutcomes ==
    {[kind |-> "ok", text |-> t] : t \in Transcripts}
    \cup {[kind |-> "ReadTimeout", text |-> <<>>], [kind |-> "Exception", text |-> <<>>]}

transcribe_audio(client_ok, file_exists, outcome) ==
    IF ~client_ok
    THEN <<"Transcription", "service", "unavailable", ":", "API key missing.">>
    ELSE IF ~file_exists \/ outcome.kind = "Exception"
    THEN <<"Transcription", "failed", ".">>
    ELSE IF outcome.kind = "ReadTimeout"
    THEN <<"Transcription", "timed", "out", ".">>
    ELSE Strip(outcome.text)

(* Translation collaborator: utils/gpt_client.translate_text *)

Translations == {<<"sawubona">>, <<>>}

\* what gpt_aclient.chat.completions.create does: returns content or raises
GptOutcomes ==
    {[kind |-> "ok", text |-> t] : t \in Translations}
    \cup {[kind |-> "ReadTimeout", text |-> <<>>], [kind |-> "Exception", text |-> <<>>]}

translate_text(client_ok, text_to_translate, outcome) ==
    IF ~client_ok
    THEN <<"Translation", "service", "unavailable", ":", "API key missing.">>
    ELSE IF Strip(text_to_translate) = <<>>
    THEN <<>>
    ELSE IF outcome.kind = "Exception"
    THEN <<"Translation", "failed", ".">>
    ELSE IF outcome.kind = "ReadTimeout"
    THEN <<"Translation", "timed", "out", ".">>
    ELSE Strip(outcome.text)

\* the route's test of what transcribe_audio returned
transcription_rejected(text) ==
    \/ text = <<>>
    \/ StartsWith(text, <<"Transcription", "service", "unavailable">>)
    \/ StartsWith(text, <<"Transcription", "failed">>)

\* the route's test of what translate_text returned
translation_rejected(text) ==
    \/ text = <<>>
    \/ StartsWith(text, <<"Translation", "service", "unavailable">>)
    \/ StartsWith(text, <<"Translation", "failed">>)

----------------------------------------------------------------------------
(* Upload handling of POST /api/translate *)

MAX_FILE_SIZE_MB == 5
MAX_FILE_SIZE_BYTES == MAX_FILE_SIZE_MB * 1024 * 1024
ALLOWED_AUDIO_CONTENT_TYPES ==
    {"audio/wav", "audio/mpeg", "audio/mp3", "audio/webm", "audio/m4a", "audio/ogg",
     "audio/aac"}

\* audio_file.read(1024 * 1024)
ChunkSize == 1024 * 1024

Min(a, b) == IF a <= b THEN a ELSE b

\* variant: an upload of exactly the limit is refused
RECURSIVE read_chunks_limit_exclusive(_, _)
read_chunks_limit_exclusive(remaining, file_size) ==
    LET chunk == Min(remaining, ChunkSize)
    IN  IF chunk = 0
        THEN [too_large |-> FALSE, file_size |-> file_size]
        ELSE IF file_size + chunk >= MAX_FILE_SIZE_BYTES
        THEN [too_large |-> TRUE, file_size |-> file_size + chunk]
        ELSE read_chunks_limit_exclusive(remaining - chunk, file_size + chunk)

\* the chunk loop: file_size after it, and whether the limit was exceeded
RECURSIVE read_chunks(_, _)
read_chunks(remaining, file_size) ==
    LET chunk == Min(remaining, ChunkSize)
    IN  IF chunk = 0
        THEN [too_large |-> FALSE, file_size |-> file_size]
        ELSE IF file_size + chunk > MAX_FILE_SIZE_BYTES
        THEN [too_large |-> TRUE, file_size |-> file_size + chunk]
        ELSE read_chunks(remaining - chunk, file_size + chunk)

UploadSizes ==
    {0, 1, MAX_FILE_SIZE_BYTES, MAX_FILE_SIZE_BYTES + 1, MAX_FILE_SIZE_BYTES + 3 * ChunkSize}

AudioUploads ==
    [content_type : {"audio/wav", "text/plain"}, filename : {"a.wav"}, size : UploadSizes]

TextInputs == {None, Some(<<"hello", " ">>), Some(<<" ">>)}

\* os.path.join(temp_dir, f"{current_user.id}_{timestamp}_{filename}")
temp_path(current_user, now, audio_file) ==
    <<current_user.id.hex, now, audio_file.filename>>

----------------------------------------------------------------------------
(* POST /api/translate *)

TLoc(user, path, original, translated, wfail, gfail) ==
    [user |-> user, path |-> path, original |-> original, translated |-> translated,
     wfail |-> wfail, gfail |-> gfail]

\* variant: the route has no finally block
finally_cleanup_missing(fs, path) == fs

\* finally: remove the temporary audio file if it is still there
finally_cleanup(fs, path) == IF path # None THEN fs \ {path[1]} ELSE fs

\* the route from its first line to its first await: of audio_file.read for
\* an upload (the temporary file is open by then), of translate_text for a text
translate_begin(current_user, inp, now) ==
    LET has_text == inp.text_input # None /\ Strip(inp.text_input[1]) # <<>>
        af == inp.audio_file[1]
        path == temp_path(current_user, now, af)
        stop(resp) == [pc |-> "done", resp |-> resp, path |-> None, original |-> <<>>]
    IN  IF inp.audio_file = None /\ ~has_text
        THEN stop(HTTPException(HTTP_400_BAD_REQUEST,
                 <<"Either an audio file ('audio_file') or text input ('text_input') must be provided.">>,
                 {}))
        ELSE IF inp.audio_file # None
        THEN IF af.content_type \notin ALLOWED_AUDIO_CONTENT_TYPES
             THEN stop(HTTPException(HTTP_400_BAD_REQUEST,
                      <<"Invalid audio file type">>, {}))
             ELSE [pc |-> "uploading", resp |-> NoResp, path |-> Some(path),
                   original |-> <<>>]
        ELSE [pc |-> "translating", resp |-> NoResp, path |-> None,
              original |-> Strip(inp.text_input[1])]

TranslateRequest(i) ==
    /\ CanStart(i)
    /\ Len(sessions)
         + Cardinality({j \in Reqs : req[j].kind = "translate"
                                      /\ req[j].pc \notin {"idle", "done"}})
         < MaxSessions
    /\ \E tok \in PresentableTokens :
         Step(i, BeginAuth("translate",
                     [token |-> tok, text_input |-> None, audio_file |-> None], clock))
    /\ UNCHANGED <<users, sessions, files, clock, nextOid, issued, signedUp,
                   aclient, gpt_aclient, tk>>

TranslateFind(i) ==
    /\ req[i].pc = "find"
    /\ req[i].kind = "translate"
    /\ \E ti \in TextInputs, af \in {None} \cup {Some(a) : a \in AudioUploads} :
         LET res == resolve_user(users, req[i].loc)
             inp == [req[i].in EXCEPT !.text_input = ti, !.audio_file = af]
             b == translate_begin(res.user, inp, clock)
         IN  IF ~res.ok
             THEN /\ Step(i, [Answer(req[i], res.resp) EXCEPT !.reads = @ + 1])
                  /\ UNCHANGED files
             ELSE /\ Step(i, [req[i] EXCEPT
                                 !.pc = b.pc, !.resp = b.resp, !.reads = @ + 1, !.in = inp,
                                 !.loc = TLoc(res.user, b.path, b.original, <<>>,
                                              FALSE, FALSE)])
                  /\ files' = IF b.path # None THEN files \cup {b.path[1]} ELSE files
    /\ UNCHANGED <<users, sessions, clock, nextOid, issued, signedUp,
                   aclient, gpt_aclient, tk>>

\* the chunk loop and the empty-file test, the upload read without an error
save_upload(audio_file) ==
    LET rc == read_chunks(audio_file.size, 0)
    IN  IF rc.too_large
        THEN [ok |-> FALSE, file_size |-> rc.file_size,
              resp |-> HTTPException(HTTP_413_REQUEST_ENTITY_TOO_LARGE,
                          <<"Audio file too large. Maximum size is 5MB.">>, {})]
        ELSE IF rc.file_size = 0
        THEN [ok |-> FALSE, file_size |-> rc.file_size,
              resp |-> HTTPException(HTTP_400_BAD_REQUEST, <<"Audio file is empty.">>, {})]
        ELSE [ok |-> TRUE, file_size |-> rc.file_size, resp |-> NoResp]

\* the upload has been read (or reading it raised) and the route runs on to its
\* await of transcribe_audio; a rejected upload is removed on the spot
UploadReturn(i) ==
    /\ req[i].pc = "uploading"
    /\ \E read_ok \in BOOLEAN :
         LET loc == req[i].loc
             up == save_upload(req[i].in.audio_file[1])
         IN  IF ~read_ok
             THEN /\ Step(i, Answer(req[i],
                                HTTPException(HTTP_500_INTERNAL_SERVER_ERROR,
                                    <<"An unexpected error occurred during the translation process.">>,
                                    {})))
                  /\ files' = finally_cleanup(files, loc.path)
             ELSE IF ~up.ok
             THEN /\ Step(i, Answer(req[i], up.resp))
                  /\ files' = files \ {loc.path[1]}
             ELSE /\ Step(i, [req[i] EXCEPT !.pc = "transcribing"])
                  /\ UNCHANGED files
    /\ UNCHANGED <<users, sessions, clock, nextOid, issued, signedUp,
                   aclient, gpt_aclient, tk>>

\* transcribe_audio returns and the route runs on to its await of translate_text
TranscribeReturn(i) ==
    /\ req[i].pc = "transcribing"
    /\ \E o \in WhisperOutcomes :
         LET loc == req[i].loc
             there == loc.path[1] \in files
             text == transcribe_audio(aclient, there, o)
             wfail == ~aclient \/ ~there \/ o.kind # "ok" \/ Strip(o.text) = <<>>
         IN  IF transcription_rejected(text)
             THEN /\ Step(i, [Answer(req[i],
                                HTTPException(HTTP_500_INTERNAL_SERVER_ERROR,
                                    <<"Transcription failed or service unavailable: ">> \o text,
                                    {})) EXCEPT !.loc.wfail = wfail])
                  /\ files' = finally_cleanup(files, loc.path)
             ELSE IF Strip(text) = <<>>
             THEN /\ Step(i, [Answer(req[i],
                                HTTPException(HTTP_400_BAD_REQUEST,
                                    <<"Text to translate cannot be empty after processing input.">>,
                                    {})) EXCEPT !.loc.wfail = wfail])
                  /\ files' = finally_cleanup(files, loc.path)
             ELSE /\ Step(i, [req[i] EXCEPT !.pc = "translating",
                                !.loc.original = Strip(text), !.loc.wfail = wfail])
                  /\ UNCHANGED files
    /\ UNCHANGED <<users, sessions, clock, nextOid, issued, signedUp,
                   aclient, gpt_aclient, tk>>

\* translate_text returns and the route runs on to its await of insert_one
TranslateReturn(i) ==
    /\ req[i].pc = "translating"
    /\ \E o \in GptOutcomes :
         LET loc == req[i].loc
             text == translate_text(gpt_aclient, loc.original, o)
             gfail == ~gpt_aclient \/ o.kind # "ok" \/ Strip(o.text) = <<>>
         IN  IF translation_rejected(text)
             THEN /\ Step(i, [Answer(req[i],
                                HTTPException(HTTP_500_INTERNAL_SERVER_ERROR,
                                    <<"Translation failed or service unavailable: ">> \o text,
                                    {})) EXCEPT !.loc.gfail = gfail])
                  /\ files' = finally_cleanup(files, loc.path)
             ELSE /\ Step(i, [req[i] EXCEPT !.pc = "storing",
                                !.loc.translated = text, !.loc.gfail = gfail])
                  /\ UNCHANGED files
    /\ UNCHANGED <<users, sessions, clock, nextOid, issued, signedUp,
                   aclient, gpt_aclient, tk>>

\* TranslationSession(...).model_dump(by_alias=True, exclude_none=True)
session_data(loc, now) ==
    [user_id |-> loc.user.id, timestamp |-> now,
     original_text |-> loc.original, translated_text |-> loc.translated,
     source_language |-> "auto-detected", target_language |-> "isiZulu"]

\* db["sessions"].insert_one returns or raises; then the response; then finally
StoreSession(i) ==
    /\ req[i].pc = "storing"
    /\ \E db_ok \in BOOLEAN :
         LET loc == req[i].loc
             doc == session_data(loc, clock)
         IN  IF db_ok
             THEN /\ sessions' = Append(sessions, doc)
                  /\ Step(i, Answer(req[i],
                                Resp(HTTP_200_OK, <<>>, {},
                                     Some([original_text |-> doc.original_text,
                                           translated_text |-> doc.translated_text,
                                           source_language |-> doc.source_language,
                                           target_language |-> doc.target_language]))))
             ELSE /\ UNCHANGED sessions
                  /\ Step(i, Answer(req[i],
                                HTTPException(HTTP_500_INTERNAL_SERVER_ERROR,
                                    <<"An unexpected error occurred during the translation process.">>,
                                    {})))
    /\ files' = finally_cleanup(files, req[i].loc.path)
    /\ UNCHANGED <<users, clock, nextOid, issued, signedUp, aclient, gpt_aclient, tk>>

----------------------------------------------------------------------------
(* The server: a fresh database, the unique index on email in place *)

Tick ==
    /\ clock < MaxTicks * TickSeconds * SubSec
    /\ clock' = clock + TickSeconds * SubSec
    /\ UNCHANGED <<users, sessions, files, nextOid, req, last, issued, signedUp,
                   aclient, gpt_aclient, tk>>

Init ==
    /\ users = {}
    /\ sessions = <<>>
    /\ files = {}
    /\ clock = 0
    /\ nextOid = 0
    /\ req = [i \in Reqs |-> Idle]
    /\ last = Idle
    /\ issued = {}
    /\ signedUp = {}
    /\ aclient = TRUE
    /\ gpt_aclient = TRUE
    /\ tk = TkOff

\* the authentication endpoints
Next ==
    \/ Tick
    \/ \E i \in Reqs :
         \/ SignupFind(i)
         \/ SignupInsert(i)
         \/ Login(i)
         \/ MeRequest(i)
         \/ MeFind(i)

Spec == Init /\ [][Next]_vars

----------------------------------------------------------------------------
(* The translate endpoint, from the state a first signup leaves behind *)

FirstUser ==
    signup_check({}, [email |-> "a@x.com", password |-> "longenough1", name |-> "Ann"],
                 "salt1", 1).doc

FirstToken ==
    signup_finish(users_insert_one({}, FirstUser), FirstUser, 0).body[1].access_token

InitTr ==
    /\ users = {FirstUser}
    /\ sessions = <<>>
    /\ files = {}
    /\ clock = 0
    /\ nextOid = 1
    /\ req = [i \in Reqs |-> Idle]
    /\ last = Idle
    /\ issued = {FirstToken}
    /\ signedUp = {<<"a@x.com", "longenough1">>}
    /\ \E key_set \in BOOLEAN : aclient = key_set /\ gpt_aclient = key_set
    /\ tk = TkOff

NextTr ==
    \/ Tick
    \/ \E i \in 1 .. NReqTr :
         \/ TranslateRequest(i)
         \/ TranslateFind(i)
         \/ UploadReturn(i)
         \/ TranscribeReturn(i)
         \/ TranslateReturn(i)
         \/ StoreSession(i)

SpecTr == InitTr /\ [][NextTr]_vars

----------------------------------------------------------------------------
(* Requests served one at a time *)

NoOtherInFlight(i) == \A j \in Reqs \ {i} : Free(j)

SeqSignupFind(i) == NoOtherInFlight(i) /\ SignupFind(i)
SeqSignupInsert(i) == NoOtherInFlight(i) /\ SignupInsert(i)
SeqLogin(i) == NoOtherInFlight(i) /\ Login(i)

NextSeq ==
    \/ Tick
    \/ \E i \in Reqs :
         \/ SeqSignupFind(i)
         \/ SeqSignupInsert(i)
         \/ SeqLogin(i)

SpecSeq == Init /\ [][NextSeq]_vars

----------------------------------------------------------------------------
(* The token round trip on drawn inputs *)

InitTok ==
    /\ users = {}
    /\ sessions = <<>>
    /\ files = {}
    /\ clock = 0
    /\ nextOid = 0
    /\ req = [i \in Reqs |-> Idle]
    /\ last = Idle
    /\ issued = {}
    /\ signedUp = {}
    /\ aclient = TRUE
    /\ gpt_aclient = TRUE
    /\ \E c \in IdentityClaims, ttl \in Ttls, t0 \in StartTimes :
         tk = [TkOff EXCEPT !.pc = "start", !.c = c, !.ttl = ttl, !.t0 = t0]

NextTok == TokIssue \/ TokVerify

SpecTok == InitTok /\ [][NextTok]_vars

----------------------------------------------------------------------------
(* The identity resolver on a drawn store and drawn signed tokens: records *)
(* left by other writers, and tokens signed before the store changed.      *)

SecondUser ==
    [_id |-> 2, email |-> "b@x.com", name |-> "Ann",
     hashed_password |-> get_password_hash("longenough2", "salt1")]

ResDocs ==
    {FirstUser,
     SecondUser,
     \* the first user after an email change
     [FirstUser EXCEPT !.email = "b@x.com"],
     \* a partial write: no name
     [_id |-> 1, email |-> "a@x.com", hashed_password |-> FirstUser.hashed_password],
     \* a stored email that EmailStr rejects
     [SecondUser EXCEPT !.email = "not-an-email"]}

ResStores ==
    {S \in SUBSET ResDocs :
        \A u, v \in S : (u._id = v._id \/ u.email = v.email) => u = v}

ResPayloads ==
    [email : {"a@x.com", "b@x.com", "not-an-email"},
     user_id : {IdStr(1, FALSE), IdStr(1, TRUE), IdStr(2, FALSE), BadIdStr},
     exp : {1}]
    \cup {[user_id |-> IdStr(1, FALSE), exp |-> 1],
          [email |-> "a@x.com", exp |-> 1],
          [email |-> "a@x.com", user_id |-> IdStr(1, FALSE)]}

ResTokens ==
    {[alg |-> ALGORITHM, payload |-> pl, sig |-> Sign(JWT_SECRET_KEY, ALGORITHM, pl)] :
        pl \in ResPayloads}
    \cup {[alg |-> a, payload |-> pl, sig |-> Sign(AttackerKey, a, pl)] :
             a \in {ALGORITHM, "none"},
             pl \in {[email |-> "a@x.com", user_id |-> IdStr(1, FALSE), exp |-> 1]}}

ResClocks == {0, SubSec, 2 * SubSec}

ResRequest(i) ==
    /\ CanStart(i)
    /\ \E tok \in ResTokens :
         Step(i, BeginAuth("me", [token |-> tok], clock))
    /\ UNCHANGED <<users, sessions, files, clock, nextOid, issued, signedUp,
                   aclient, gpt_aclient, tk>>

InitRes ==
    /\ users \in ResStores
    /\ sessions = <<>>
    /\ files = {}
    /\ clock \in ResClocks
    /\ nextOid = 2
    /\ req = [i \in Reqs |-> Idle]
    /\ last = Idle
    /\ issued = {}
    /\ signedUp = {}
    /\ aclient = TRUE
    /\ gpt_aclient = TRUE
    /\ tk = TkOff

NextRes == \E i \in Reqs : ResRequest(i) \/ MeFind(i)

SpecRes == InitRes /\ [][NextRes]_vars

----------------------------------------------------------------------------
(* All four endpoints on a fresh database, served by NReqTr workers; the   *)
(* translate requests carry no body, a text, or a small audio upload.      *)

AllBodies ==
    {<<None, None>>,
     <<Some(<<"hello", " ">>), None>>,
     <<None, Some([content_type |-> "audio/wav", filename |-> "a.wav", size |-> 1])>>}

AllTranslateFind(i) ==
    /\ TranslateFind(i)
    /\ LET r == IF req'[i].pc = "idle" THEN last' ELSE req'[i]
       IN  <<r.in.text_input, r.in.audio_file>> \in AllBodies

NextAll ==
    \/ Tick
    \/ \E i \in 1 .. NReqTr :
         \/ SignupFind(i)
         \/ SignupInsert(i)
         \/ Login(i)
         \/ MeRequest(i)
         \/ MeFind(i)
         \/ TranslateRequest(i)
         \/ AllTranslateFind(i)
         \/ UploadReturn(i)
         \/ TranscribeReturn(i)
         \/ TranslateReturn(i)
         \/ StoreSession(i)

SpecAll == Init /\ [][NextAll]_vars

----------------------------------------------------------------------------
(* The verifier on tokens of any signer: each payload of ResPayloads under *)
(* the server's key and under another key, with either header; tk keeps    *)
(* the outcome of the try block for the token presented last.              *)

VerTokens ==
    {[alg |-> a, payload |-> pl, sig |-> Sign(k, a, pl)] :
        k \in {JWT_SECRET_KEY, AttackerKey}, a \in {ALGORITHM, "none"}, pl \in ResPayloads}

VerStores == {{}, {FirstUser}, {FirstUser, SecondUser}}

VerRequest(i) ==
    /\ CanStart(i)
    /\ \E tok \in VerTokens :
         /\ Step(i, BeginAuth("me", [token |-> tok], clock))
         /\ tk' = [TkOff EXCEPT !.pc = "verified", !.token = tok, !.now = clock,
                                !.res = verify_token(tok, clock)]
    /\ UNCHANGED <<users, sessions, files, clock, nextOid, issued, signedUp,
                   aclient, gpt_aclient>>

InitVer ==
    /\ users \in VerStores
    /\ sessions = <<>>
    /\ files = {}
    /\ clock \in ResClocks
    /\ nextOid = 2
    /\ req = [i \in Reqs |-> Idle]
    /\ last = Idle
    /\ issued = {}
    /\ signedUp = {}
    /\ aclient = TRUE
    /\ gpt_aclient = TRUE
    /\ tk = TkOff

NextVer == \E i \in Reqs : VerRequest(i) \/ MeFind(i)

SpecVer == InitVer /\ [][NextVer]_vars

----------------------------------------------------------------------------
(* Claims *)

AlreadyRegistered ==
    HTTPException(HTTP_400_BAD_REQUEST, <<"Email already registered.">>, {})

\* C1: of concurrent signups with one email at most one inserts, and every
\* signup that inserted nothing is answered "already registered", never with
\* the internal-error response.
C1_ConcurrentSignupAlreadyRegistered ==
    /\ \A u, v \in users : u.email = v.email => u = v
    /\ (last.kind = "signup" /\ last.writes = 0) => last.resp = AlreadyRegistered

SignupAnswered == last'.kind = "signup" /\ last' # last
LoginAnswered == last'.kind = "login" /\ last' # last

C2_Step ==
    /\ SignupAnswered =>
         IF \E u \in users : u.email = last'.in.email
         THEN last'.resp = AlreadyRegistered /\ users' = users
         ELSE /\ last'.resp.status = HTTP_201_CREATED
              /\ last'.resp.body # None
              /\ users \subseteq users'
              /\ Cardinality(users') = Cardinality(users) + 1
              /\ \A u \in users' \ users : u.email = last'.in.email
    /\ LoginAnswered =>
         (<<last'.in.email, last'.in.password>> \in signedUp
            => /\ last'.resp.status = HTTP_200_OK
               /\ last'.resp.body # None
               /\ verify_token(last'.resp.body[1].access_token, clock).ok
               /\ verify_token(last'.resp.body[1].access_token, clock).email
                    = last'.in.email)

\* C2: with requests served one after another, a signup whose email is in the
\* store is answered "already registered" and adds no record; a signup whose
\* email is not in the store is answered 201 with a token and adds exactly one
\* record, of that email; every later login with the email and password of an
\* accepted signup is answered 200 with a token that verifies for that email.
C2_SignupThenLogin == [][C2_Step]_vars

C2_Witness ==
    /\ last.kind = "login"
    /\ last.resp.status = HTTP_200_OK
    /\ <<last.in.email, last.in.password>> \in signedUp
    /\ clock > 0
    /\ Cardinality(users) = 2

TtlOf(expires_delta) == IF expires_delta = None THEN DefaultTtl ELSE expires_delta[1]

\* C3: a token issued with ttl t is refused as expired at every instant from
\* t after its issuance on, the instant t itself included.
C3_ExpiredFromTtlOn ==
    (tk.pc = "verified" /\ tk.now - tk.t0 >= TtlOf(tk.ttl))
        => (~tk.res.ok /\ tk.res.err = "ExpiredSignatureError")

\* C4: for every identity claim and every ttl > 0 the token verifies at the
\* instant of its issuance, and the email and user_id read back are those of
\* the claim.
C4_RoundTripAtIssuance ==
    (tk.pc = "verified" /\ tk.ttl # None /\ TtlOf(tk.ttl) > 0 /\ tk.now = tk.t0)
        => (tk.res.ok /\ tk.res.email = tk.c.email /\ tk.res.user_id = tk.c.user_id)

C4_Witness ==
    /\ tk.pc = "verified"
    /\ tk.ttl = Some(1)
    /\ tk.now = tk.t0
    /\ tk.res.ok
    /\ tk.res.email = "b@x.com"

GenericUnauthorized ==
    Resp(HTTP_401_UNAUTHORIZED, <<"Could not validate credentials">>, BearerHeader, None)

GenericLoginFailure ==
    Resp(HTTP_401_UNAUTHORIZED, <<"Incorrect email or password.">>, BearerHeader, None)

\* C5: a presented token that is not one the server issued (claims, expiry,
\* signature or header altered, or made without the secret) is answered with
\* the unauthorized response; a request is only ever authenticated on a token
\* the server issued, and the user it is served as is the one that token names.
C5_OnlyIssuedTokensAuthenticate ==
    /\ \A i \in Reqs : req[i].pc = "find" => req[i].in.token \in issued
    /\ last.kind = "me" =>
         /\ last.in.token \notin issued => last.resp = GenericUnauthorized
         /\ last.resp.status = HTTP_200_OK =>
              /\ last.in.token \in issued
              /\ last.resp.body[1].email = last.in.token.payload.email
              /\ last.resp.body[1].id = last.in.token.payload.user_id

C5_Witness ==
    /\ last.kind = "me"
    /\ \E t \in issued :
         /\ last.in.token \in Tampered(t)
         /\ last.in.token.payload.email # t.payload.email
         /\ \E u \in users : u.email = last.in.token.payload.email
    /\ last.resp = GenericUnauthorized

\* C6: a login that is not accepted is always answered with one and the same
\* response (401, the generic message, the Bearer header), whether the email
\* has no user record or the password is not the one of the record.
C6_LoginFailuresIdentical ==
    last.kind = "login" =>
        /\ last.resp.status # HTTP_200_OK => last.resp = GenericLoginFailure
        /\ <<last.in.email, last.in.password>> \notin signedUp
              => last.resp = GenericLoginFailure

C6_Witness ==
    /\ last.kind = "login"
    /\ \E u \in users : u.email = last.in.email
    /\ <<last.in.email, last.in.password>> \notin signedUp
    /\ \E e \in Emails : \A u \in users : u.email # e
    /\ last.resp = GenericLoginFailure

HasClaims(t) ==
    /\ {"email", "user_id"} \subseteq DOMAIN t.payload
    /\ ObjectId_is_valid(t.payload.user_id)

Matching(t) ==
    \E u \in users : u._id = ObjectId(t.payload.user_id) /\ u.email = t.payload.email

\* C7: a request is accepted only if the store holds a record whose _id is the
\* ObjectId the token's user_id denotes and whose email is the token's email;
\* without such a record the request is answered 401.
C7_AcceptedOnlyOnMatchingRecord ==
    last.kind = "me" =>
        (~(HasClaims(last.in.token) /\ Matching(last.in.token))
            => (last.resp.status = HTTP_401_UNAUTHORIZED /\ last.resp.body = None))

C7_Witness ==
    /\ last.kind = "me"
    /\ last.reads = 1
    /\ last.resp.status = HTTP_401_UNAUTHORIZED
    /\ \E u \in users : /\ u._id = ObjectId(last.in.token.payload.user_id)
                        /\ u.email # last.in.token.payload.email

\* C8: every protected request that is not accepted gets the one generic
\* unauthorized response: status 401 and "Could not validate credentials".
C8_SingleUnauthorizedOutcome ==
    (last.kind = "me" /\ last.resp.status # HTTP_200_OK) => last.resp = GenericUnauthorized

\* C9 as stated: every call of the resolver makes exactly one read of the user
\* store and no write.
C9_ExactlyOneRead ==
    last.kind = "me" => (last.reads = 1 /\ last.writes = 0)

TokenVerifies(t, now) ==
    /\ t.alg = ALGORITHM
    /\ t.sig = Sign(JWT_SECRET_KEY, ALGORITHM, t.payload)
    /\ ("exp" \in DOMAIN t.payload => t.payload.exp >= now \div SubSec)
    /\ HasClaims(t)

C9_Step ==
    /\ users' = users
    /\ (last' # last /\ last'.kind = "me") =>
         /\ last'.writes = 0
         /\ last'.reads = IF TokenVerifies(last'.in.token, clock) THEN 1 ELSE 0

\* C9 amended: a call of the resolver never writes to the user store, and it
\* reads it exactly once if the token passes verification (signature, expiry,
\* both claims present, user_id a valid ObjectId) and not at all otherwise.
C9_OneReadIfVerified == [][C9_Step]_vars

C9_Witness ==
    /\ last.kind = "me"
    /\ last.reads = 0
    /\ last.in.token.sig = Sign(JWT_SECRET_KEY, ALGORITHM, last.in.token.payload)
    /\ last.resp.status = HTTP_401_UNAUTHORIZED

FailureMessages ==
    {<<"Transcription", "service", "unavailable", ":", "API key missing.">>,
     <<"Transcription", "timed", "out", ".">>,
     <<"Transcription", "failed", ".">>,
     <<"Translation", "service", "unavailable", ":", "API key missing.">>,
     <<"Translation", "timed", "out", ".">>,
     <<"Translation", "failed", ".">>}

\* C10: a translate request in which a collaborator failed (no client, read
\* timeout, other exception, empty result) is answered 500; no failure message
\* is handed on as the text to translate, and none is stored as original_text
\* or translated_text of a session.
C10_CollaboratorFailureIsServiceFailure ==
    /\ (last.kind = "translate" /\ "wfail" \in DOMAIN last.loc
          /\ (last.loc.wfail \/ last.loc.gfail))
         => last.resp.status = HTTP_500_INTERNAL_SERVER_ERROR
    /\ \A i \in Reqs : req[i].pc \in {"translating", "storing"} =>
         (~req[i].loc.wfail /\ ~req[i].loc.gfail
          /\ req[i].loc.original \notin FailureMessages)
    /\ \A k \in 1 .. Len(sessions) :
         /\ sessions[k].original_text \notin FailureMessages
         /\ sessions[k].translated_text \notin FailureMessages

SignatureValid(t) ==
    t.alg = ALGORITHM /\ t.sig = Sign(JWT_SECRET_KEY, ALGORITHM, t.payload)

\* C11: a token whose signature has not been validated is refused on the
\* signature alone, whatever its claims say (expired, claim missing, user_id
\* malformed), and no user-store lookup is ever pending or made for it.
C11_SignatureBeforeClaims ==
    /\ (tk.pc = "verified" /\ ~SignatureValid(tk.token))
          => (~tk.res.ok /\ tk.res.err = "JWTError")
    /\ \A i \in Reqs : req[i].pc = "find" => SignatureValid(req[i].in.token)
    /\ (last.kind = "me" /\ ~SignatureValid(last.in.token))
          => (last.reads = 0 /\ last.resp = GenericUnauthorized)

C11_Witness ==
    /\ tk.pc = "verified"
    /\ tk.token.alg = ALGORITHM
    /\ tk.token.sig = Sign(AttackerKey, ALGORITHM, tk.token.payload)
    /\ "exp" \in DOMAIN tk.token.payload
    /\ tk.token.payload.exp < timegm(tk.now)
    /\ tk.res.err = "JWTError"
    /\ last.in.token = tk.token
    /\ last.reads = 0

\* C12: in every reachable state of the user store no two user records have
\* the same email.
C12_EmailUnique ==
    \A u, v \in users : u.email = v.email => u = v

C12_Witness ==
    /\ last.kind = "signup"
    /\ last.resp.status = HTTP_500_INTERNAL_SERVER_ERROR
    /\ Cardinality(users) = 1
    /\ \E u \in users : u.email = last.in.email /\ u._id # last.loc._id

C13_Step ==
    /\ (/\ last' # last
        /\ last'.kind = "signup"
        /\ last'.resp.status = HTTP_201_CREATED)
       => \E u \in users' :
             /\ u.email = last'.in.email
             /\ u.name = last'.in.name
             /\ last'.resp.body[1].access_token.payload.email = u.email
             /\ last'.resp.body[1].access_token.payload.user_id = ObjectId_str(u._id)
    /\ (/\ last' # last
        /\ last'.kind = "me"
        /\ last'.in.token \in issued
        /\ last'.in.token.payload.exp >= timegm(clock))
       => \E u \in users :
             /\ u.email = last'.in.token.payload.email
             /\ ObjectId_str(u._id) = last'.in.token.payload.user_id
             /\ last'.resp = Resp(HTTP_200_OK, <<>>, {},
                                  Some([id |-> ObjectId_str(u._id), email |-> u.email,
                                        name |-> u.name]))

\* C13: a signup answered 201 leaves a record with its email and name and
\* returns a token naming that email and the record's id; a GET
\* /auth/users/me with a token the server returned, answered before the
\* token's expiry, is answered 200 with exactly the fields id, email and name
\* of that record, and the hashed password is not among them.
C13_MeReturnsSignedUpUser == [][C13_Step]_vars

C13_Witness ==
    /\ last.kind = "me"
    /\ last.resp.status = HTTP_200_OK
    /\ last.in.token \in issued
    /\ clock > 0
    /\ Cardinality(users) = 2
    /\ last.resp.body[1] = [id |-> IdStr(2, FALSE), email |-> "b@x.com", name |-> "Ann"]

C14_Step ==
    /\ users \subseteq users'
    /\ users' # users =>
         /\ last' # last
         /\ last'.kind = "signup"
         /\ last'.resp.status = HTTP_201_CREATED
         /\ \E d \in users' \ users :
               /\ users' = users \cup {d}
               /\ d.email = last'.in.email
               /\ \A u \in users : u._id # d._id /\ u.email # d.email
    /\ \A i \in Reqs :
         (req[i].kind \in {"login", "me", "translate"} /\ req'[i] # req[i])
            => users' = users
    /\ (last' # last /\ last'.kind \in {"login", "me", "translate"}) => users' = users

\* C14: every step leaves every existing user record in the store as it is
\* (none deleted, none changed in _id, email, name or hashed_password); the
\* store changes only in the step in which a signup is answered 201, by
\* exactly one new record; steps of login, /users/me, the resolver and the
\* translate route leave it unchanged.
C14_UsersOnlyCreatedBySignup == [][C14_Step]_vars

C14_Witness ==
    /\ last.kind = "translate"
    /\ last.resp.status = HTTP_200_OK
    /\ Len(sessions) = 1
    /\ Cardinality(users) = 2
    /\ Cardinality(issued) = 2

Unexpired(t, now) == t.payload.exp >= timegm(now)

C15_Step ==
    /\ (/\ last' # last
        /\ last'.kind = "me"
        /\ last'.in.token \in issued
        /\ Unexpired(last'.in.token, clock)
        /\ Matching(last'.in.token))
       => last'.resp.status = HTTP_200_OK
    /\ \A t \in issued' :
         (Unexpired(t, clock') /\ \E u \in users' : /\ u._id = ObjectId(t.payload.user_id)
                                                   /\ u.email = t.payload.email)
            => /\ verify_token(t, clock').ok
               /\ resolve_user(users', [email |-> t.payload.email,
                                        user_id |-> t.payload.user_id]).ok

\* C15: a token the server issued is accepted on every request answered
\* before its expiry while the user record of its user_id and email exists,
\* whatever signups, logins (issuing further tokens), failed requests and
\* rejected tokens came in between; after every step each issued, unexpired
\* token with a matching record still passes the verifier and the resolver.
C15_IssuedTokensStayValid == [][C15_Step]_vars

C15_Witness ==
    /\ last.kind = "me"
    /\ last.resp.status = HTTP_200_OK
    /\ last.in.token \in issued
    /\ timegm(clock) = last.in.token.payload.exp
    /\ \E t \in issued : /\ t.payload.exp > last.in.token.payload.exp
                          /\ t.payload.email = last.in.token.payload.email

TranslateAnswered == last' # last /\ last'.kind = "translate"

C16_Step ==
    \* the order of the steps
    /\ \A i \in Reqs :
         /\ (req'[i].pc = "uploading" /\ req[i].pc # "uploading")
               => (req[i].pc = "find" /\ req'[i].loc.path[1] \in files')
         /\ (req'[i].pc = "transcribing" /\ req[i].pc # "transcribing")
               => (req[i].pc = "uploading" /\ req'[i].loc.path[1] \in files')
         /\ (req'[i].pc = "translating" /\ req[i].pc # "translating")
               => req[i].pc \in {"find", "transcribing"}
         /\ (req'[i].pc = "storing" /\ req[i].pc # "storing")
               => req[i].pc = "translating"
    \* a document is written only by an authenticated request whose
    \* collaborators both succeeded, and that request is answered 200
    /\ sessions' # sessions =>
         /\ TranslateAnswered
         /\ last'.resp.status = HTTP_200_OK
         /\ last'.in.token \in issued
         /\ \E u \in users : ObjectId_str(u._id) = last'.loc.user.id
         /\ ~last'.loc.wfail /\ ~last'.loc.gfail
    \* one document per 200, none on an error
    /\ (TranslateAnswered /\ last'.resp.status = HTTP_200_OK)
          => (Len(sessions') = Len(sessions) + 1
              /\ SubSeq(sessions', 1, Len(sessions)) = sessions)
    /\ (TranslateAnswered /\ last'.resp.status # HTTP_200_OK) => sessions' = sessions

\* C16: the translate route goes validate input, write upload, transcribe,
\* translate, store, return in this order; a session document is written only
\* after both collaborators succeeded and only for an authenticated user,
\* exactly one per 200 response, and none on a request that ends in an error.
C16_SessionWrittenOnlyAfterSuccess == [][C16_Step]_vars

InFlightWithFile(r, f) ==
    /\ r.kind = "translate"
    /\ r.pc \in {"uploading", "transcribing", "translating", "storing"}
    /\ r.loc.path = Some(f)

C17_Step ==
    /\ (/\ TranslateAnswered
        /\ "path" \in DOMAIN last'.loc
        /\ last'.loc.path # None)
       => last'.loc.path[1] \notin files'
    /\ \A f \in files' : \E i \in Reqs : InFlightWithFile(req'[i], f)

UploadAcceptable(af) ==
    /\ af.content_type \in {"audio/wav", "audio/mpeg", "audio/mp3", "audio/webm",
                             "audio/m4a", "audio/ogg", "audio/aac"}
    /\ af.size > 0
    /\ af.size <= 5 * 1024 * 1024

UnexpectedError ==
    HTTPException(HTTP_500_INTERNAL_SERVER_ERROR,
        <<"An unexpected error occurred during the translation process.">>, {})

C18_Step ==
    \* a collaborator is awaited on an upload only if the upload is acceptable
    /\ \A i \in Reqs :
         (/\ req'[i].pc \in {"transcribing", "translating", "storing"}
          /\ req'[i].in.audio_file # None)
            => UploadAcceptable(req'[i].in.audio_file[1])
    \* an acceptable upload, read without an error, goes on to the transcription
    /\ \A i \in Reqs :
         (/\ req[i].pc = "uploading"
          /\ UploadAcceptable(req[i].in.audio_file[1])
          /\ req'[i] # req[i])
            => (req'[i].pc = "transcribing" \/ last'.resp = UnexpectedError)
    \* the chunk loop stops at the first chunk that takes the sum over the limit
    /\ \A i \in Reqs :
         req[i].pc = "uploading" =>
            LET rc == read_chunks(req[i].in.audio_file[1].size, 0)
            IN  /\ rc.too_large <=> req[i].in.audio_file[1].size > 5 * 1024 * 1024
                /\ rc.too_large => /\ rc.file_size > 5 * 1024 * 1024
                                   /\ rc.file_size - ChunkSize <= 5 * 1024 * 1024
    \* a rejected upload is answered before any collaborator is awaited, with
    \* the error of its defect
    /\ (/\ TranslateAnswered
        /\ "path" \in DOMAIN last'.loc
        /\ last'.in.audio_file # None
        /\ ~UploadAcceptable(last'.in.audio_file[1]))
       => LET af == last'.in.audio_file[1]
          IN  /\ \E i \in Reqs : req[i].pc \in {"find", "uploading"} /\ req'[i].pc = "idle"
              /\ last'.loc.original = <<>> /\ last'.loc.translated = <<>>
              /\ sessions' = sessions
              /\ IF af.content_type \notin ALLOWED_AUDIO_CONTENT_TYPES
                 THEN last'.resp = HTTPException(HTTP_400_BAD_REQUEST,
                                       <<"Invalid audio file type">>, {})
                 ELSE IF af.size = 0
                 THEN last'.resp \in {HTTPException(HTTP_400_BAD_REQUEST,
                                          <<"Audio file is empty.">>, {}),
                                      UnexpectedError}
                 ELSE last'.resp \in {HTTPException(HTTP_413_REQUEST_ENTITY_TOO_LARGE,
                                          <<"Audio file too large. Maximum size is 5MB.">>, {}),
                                      UnexpectedError}

\* C18: an upload reaches the transcription collaborator only if its content
\* type is allowed and its size is above 0 and at most 5*1024*1024 bytes; an
\* upload of exactly the limit is accepted; a larger one is refused with 413
\* at the first chunk that takes the accumulated size over the limit, an empty
\* one with 400, one of another type with 400; a refused upload is answered
\* without a call of the transcription or the translation collaborator.
C18_UploadLimits == [][C18_Step]_vars

C18_Witness ==
    \E i \in Reqs :
        /\ req[i].pc = "transcribing"
        /\ req[i].in.audio_file[1].size = 5 * 1024 * 1024
        /\ last.kind = "translate"
        /\ last.resp.status = HTTP_413_REQUEST_ENTITY_TOO_LARGE
        /\ last.in.audio_file[1].size = 5 * 1024 * 1024 + 1

====
